---- MODULE Spec2Model ----
(***************************************************************************)
(* kiyoshi: a cron Scheduler/Job engine driving a Task Executor that       *)
(* renders, validates and executes a batched, retried, timeout-bounded     *)
(* cleanup statement.                                                      *)
(*                                                                         *)
(*   SpecExec   one firing of process_cleanup_task (cleaner/task.rs)       *)
(*   SpecSched  Scheduler::start over its Jobs (scheduler/core.rs, job.rs) *)
(*                                                                         *)
(* Wall-clock and logical times are integers in microseconds.              *)
(***************************************************************************)
EXTENDS Integers, Sequences, FiniteSets, TLC

VARIABLES
    \* ---- one firing of the Task Executor ----
    cfg,          \* Config + CleanupTask + collaborators of this firing (read-only)
    pc,           \* position of the execute_cleanup_task future
    ppc,          \* position of process_cleanup_task
    sql,          \* the rendered statement (local `sql`)
    attempt,      \* local `attempt`
    success,      \* local `success`
    total_rows,   \* local `total_rows`
    total_time_elapsed, \* local `total_time_elapsed`
    tracker,      \* the shared ProgressTracker (Arc<Mutex<..>>)
    result,       \* what process_cleanup_task returned
    db,           \* history of the Database collaborator: connects, returns, a hung call
    queries,      \* the statements passed to execute_query, in order
    validated,    \* statements for which validate_sql_query returned Ok in this firing
    notes,        \* notifications handed to send_to_channel, in order
    chan,         \* notifications the channel has received, in order
    flight,       \* state of the send_to_channel call in progress
    \* ---- the Scheduler and its Jobs ----
    now,          \* wall clock (Utc::now), microseconds
    jobs,         \* Scheduler.jobs: sequence of Job records
    spc,          \* position of Scheduler::start
    tick,         \* what Scheduler::until returned: the tied jobs still to run, the sleep
    handed,       \* per job: the data_interval_end values handed to its actions, in order
    firedAt,      \* per job: the wall-clock times of its firings, in order
    acts,         \* the dispatched actions still in flight: job, metadata, state
    born          \* wall-clock time at which the Jobs were constructed

evars == <<cfg, pc, ppc, sql, attempt, success, total_rows, total_time_elapsed,
           tracker, result, db, queries, validated, notes, chan, flight>>
svars == <<now, jobs, spc, tick, handed, firedAt, acts, born>>
vars == <<evars, svars>>

\* Option<T>: None is the empty sequence, Some(v) is <<v>>
NoneOpt == <<>>
Some(v) == <<v>>
IsSome(o) == o # <<>>
Unwrap(o) == o[1]

Max(a, b) == IF a >= b THEN a ELSE b
Min(a, b) == IF a <= b THEN a ELSE b

RECURSIVE SumSeq(_)
SumSeq(s) == IF s = <<>> THEN 0 ELSE Head(s) + SumSeq(Tail(s))

(***************************************************************************)
(* SQL statements.  A rendered statement is text; the repository's         *)
(* templates (sql_validate.rs tests, spec section 8) have a handful of     *)
(* shapes, and the text of one is the shape with its holes filled.         *)
(* ParseSql builds the sqlparser AST the validator walks.                  *)
(***************************************************************************)
Ident == [t |-> "Identifier"]
StrLit(s) == [t |-> "Value", kind |-> "SingleQuotedString", text |-> s]
\* ast::Value::Number(text, long): the decimal text denotes n, or n * 2^48 when high
\* (n < 2^16, so every such text fits a u64); frac says it has a fractional part (which
\* u64::from_str rejects)
NumLit(n, high, long, frac) ==
    [t |-> "Value", kind |-> "Number", n |-> n, high |-> high, long |-> long, frac |-> frac]
UnaryOp(op, e) == [t |-> "UnaryOp", op |-> op, expr |-> e]
BinaryOp(l, op, r) == [t |-> "BinaryOp", left |-> l, op |-> op, right |-> r]
Interval(value, field) == [t |-> "Interval", value |-> value, leading_field |-> field]
FunctionCall(name, args) == [t |-> "Function", name |-> name, argsKind |-> "List", args |-> args]
FunctionNoArgs(name) == [t |-> "Function", name |-> name, argsKind |-> "None", args |-> <<>>]
Select(selection, from) == [body |-> "Select", selection |-> selection, from |-> from]
Table == [relation |-> [t |-> "Table"]]
Derived(q) == [relation |-> [t |-> "Derived", subquery |-> q]]
InSubquery(e, q, negated) == [t |-> "InSubquery", expr |-> e, subquery |-> q, negated |-> negated]
Nested(e) == [t |-> "Nested", expr |-> e]
Delete(selection) == [kind |-> "Delete", selection |-> selection]
Query == [kind |-> "Query", selection |-> NoneOpt]

\* the expression the parser builds for the interval's value, by the way it is written
Literal(text) ==
    CASE text.lit = "number" -> NumLit(text.n, text.high, FALSE, FALSE)       \* 30
      [] text.lit = "fraction" -> NumLit(text.n, text.high, FALSE, TRUE)      \* 30.5
      [] text.lit = "long" -> NumLit(text.n, text.high, TRUE, FALSE)          \* 30L
      [] text.lit = "quoted" -> StrLit(text.n)                                \* '30'
      [] text.lit = "negative" -> UnaryOp("Minus", NumLit(text.n, text.high, FALSE, FALSE))

\* created_at < DATE_SUB('<die>', INTERVAL <value> unit)
AgeBound(fname, die, value, unit) ==
    BinaryOp(Ident, "Lt", FunctionCall(fname, <<StrLit(die), Interval(value, unit)>>))

\* str::to_uppercase on the function names the templates use
ToUpper(name) ==
    CASE name = "date_sub" -> "DATE_SUB"
      [] name = "Date_Sub" -> "DATE_SUB"
      [] name = "now" -> "NOW"
      [] OTHER -> name

Shapes == {"DeleteLt", "DeleteLower", "DeleteInDerived", "DeleteOr", "DeleteNoWhere",
           "SelectOnly", "TwoDeletes", "NotSql",
           "DeleteGt", "DeleteEq", "DeleteNot", "DeleteParen", "DeleteInFunction",
           "DeleteIn", "DeleteNotIn",
           "DeleteInWhereDerived", "DeleteInSecondDerived", "DeleteInDeepDerived"}

\* Parser::parse_sql(&MySqlDialect, sql): Err, or the statements.  An empty table name
\* (an undefined placeholder rendered as nothing) leaves "DELETE FROM  WHERE", which
\* does not parse.
ParseSql(text) ==
    LET bound == AgeBound("DATE_SUB", text.die, Literal(text), text.unit)
        lower == AgeBound("date_sub", text.die, Literal(text), text.unit)
        keep  == InSubquery(Ident, Select(NoneOpt, <<Table>>), TRUE)
        inner1 == Select(Some(BinaryOp(bound, "And", keep)), <<Table>>)
        outer == InSubquery(Ident, Select(NoneOpt, <<Derived(inner1)>>), FALSE)
        other == BinaryOp(Ident, "Eq", StrLit("done"))          \* status = 'done'
        aged  == Select(Some(bound), <<Table>>)   \* SELECT id FROM t WHERE created_at < ..
    IN  IF text.table = "" \/ text.shape = "NotSql" THEN [ok |-> FALSE, stmts |-> <<>>]
        ELSE [ok |-> TRUE,
              stmts |->
                CASE text.shape = "DeleteLt" -> <<Delete(Some(bound))>>
                  [] text.shape = "DeleteLower" -> <<Delete(Some(lower))>>
                  [] text.shape = "DeleteInDerived" -> <<Delete(Some(outer))>>
                  [] text.shape = "DeleteOr" -> <<Delete(Some(BinaryOp(bound, "Or", BinaryOp(Ident, "Eq", Ident))))>>
                  [] text.shape = "DeleteNoWhere" -> <<Delete(NoneOpt)>>
                  \* WHERE created_at > DATE_SUB(..), WHERE created_at = DATE_SUB(..)
                  [] text.shape = "DeleteGt" ->
                        <<Delete(Some(BinaryOp(Ident, "Gt", bound.right)))>>
                  [] text.shape = "DeleteEq" ->
                        <<Delete(Some(BinaryOp(Ident, "Eq", bound.right)))>>
                  \* WHERE NOT created_at < DATE_SUB(..), WHERE (created_at < DATE_SUB(..))
                  [] text.shape = "DeleteNot" -> <<Delete(Some(UnaryOp("Not", bound)))>>
                  [] text.shape = "DeleteParen" -> <<Delete(Some(Nested(bound)))>>
                  \* WHERE created_at < COALESCE(DATE_SUB(..), created_at)
                  [] text.shape = "DeleteInFunction" ->
                        <<Delete(Some(BinaryOp(Ident, "Lt",
                                               FunctionCall("COALESCE", <<bound.right, Ident>>))))>>
                  \* WHERE id [NOT] IN (SELECT id FROM t WHERE created_at < DATE_SUB(..))
                  [] text.shape = "DeleteIn" ->
                        <<Delete(Some(InSubquery(Ident, aged, FALSE)))>>
                  [] text.shape = "DeleteNotIn" ->
                        <<Delete(Some(InSubquery(Ident, aged, TRUE)))>>
                  \* WHERE id IN (SELECT id FROM (<aged>) AS d WHERE status = 'done')
                  [] text.shape = "DeleteInWhereDerived" ->
                        <<Delete(Some(InSubquery(Ident, Select(Some(other), <<Derived(aged)>>),
                                                 FALSE)))>>
                  \* WHERE id IN (SELECT id FROM t, (<aged>) AS d)
                  [] text.shape = "DeleteInSecondDerived" ->
                        <<Delete(Some(InSubquery(Ident, Select(NoneOpt, <<Table, Derived(aged)>>),
                                                 FALSE)))>>
                  \* WHERE id IN (SELECT id FROM
                  \*                (SELECT id FROM (<aged>) AS e WHERE status = 'done') AS d)
                  [] text.shape = "DeleteInDeepDerived" ->
                        <<Delete(Some(InSubquery(Ident,
                             Select(NoneOpt, <<Derived(Select(Some(other), <<Derived(aged)>>))>>),
                             FALSE)))>>
                  [] text.shape = "SelectOnly" -> <<Query>>
                  [] text.shape = "TwoDeletes" -> <<Delete(Some(bound)), Delete(Some(bound))>>]

\* u64 arithmetic on the values n and n * 2^48 (n < 2^16) by a factor of at most 365
\* and against a retention_days below 2^48
U64Low == 2^16     \* a u64 is 2^48 * U64Low wide
\* u64 `*` without overflow checks: the product modulo 2^64
WrappingMul(v, factor) ==
    [v EXCEPT !.n = IF v.high THEN (v.n * factor) % U64Low ELSE v.n * factor]
\* u64 `*` leaves the range of u64
MulOverflows(v, factor) == v.high /\ v.n * factor >= U64Low
\* u64 `>=` against retention_days
GeqU64(v, retention_days) == IF v.high THEN v.n > 0 \/ retention_days = 0 ELSE v.n >= retention_days

\* sql_validate.rs 53, 63, 71: the arms of validate_interval for a plain number
\* literal, by unit
UnitFactor(field) ==
    CASE field = "Month" -> 30
      [] field = "Year" -> 365
      [] field = "Day" -> 1
      [] OTHER -> 0

\* SqlValidator::validate_interval, built without overflow checks
ValidateInterval(interval, retention_days) ==
    LET v == interval.value
        isNum == v.t = "Value" /\ v.kind = "Number" /\ v.long = FALSE
        parses == isNum /\ ~v.frac /\ v.n >= 0
    IN  CASE isNum /\ interval.leading_field = "Month" ->
                parses /\ GeqU64(WrappingMul(v, 30), retention_days)
          [] isNum /\ interval.leading_field = "Year" ->
                parses /\ GeqU64(WrappingMul(v, 365), retention_days)
          [] isNum /\ interval.leading_field = "Day" -> parses /\ GeqU64(v, retention_days)
          [] OTHER -> FALSE

\* validate_interval built with overflow checks panics ("attempt to multiply with
\* overflow") instead of returning
IntervalPanics(interval) ==
    LET v == interval.value
    IN  /\ v.t = "Value" /\ v.kind = "Number" /\ v.long = FALSE /\ ~v.frac
        /\ interval.leading_field \in {"Month", "Year"}
        /\ MulOverflows(v, UnitFactor(interval.leading_field))

RECURSIVE ContainsDateSub(_, _)
RECURSIVE ContainsDateSubInFrom(_, _)
\* SqlValidator::contains_date_sub
ContainsDateSub(expr, retention_days) ==
    CASE expr.t = "BinaryOp" ->
            IF expr.op \in {"Lt", "LtEq", "And"}
            THEN ContainsDateSub(expr.left, retention_days)
                   \/ ContainsDateSub(expr.right, retention_days)
            ELSE FALSE
      [] expr.t = "Function" ->
            IF ToUpper(expr.name) = "DATE_SUB"
            THEN /\ expr.argsKind = "List"
                 /\ \E i \in DOMAIN expr.args :
                       /\ expr.args[i].t = "Interval"
                       /\ ValidateInterval(expr.args[i], retention_days)
            ELSE FALSE
      [] expr.t = "InSubquery" ->
            \/ ContainsDateSub(expr.expr, retention_days)
            \/ IF expr.subquery.body = "Select"
               THEN IF IsSome(expr.subquery.selection)
                    THEN ContainsDateSub(Unwrap(expr.subquery.selection), retention_days)
                    ELSE ContainsDateSubInFrom(expr.subquery.from, retention_days)
               ELSE FALSE
      [] OTHER -> FALSE

\* SqlValidator::contains_date_sub_in_from
ContainsDateSubInFrom(from, retention_days) ==
    \E i \in DOMAIN from :
        LET rel == from[i].relation
        IN  IF rel.t = "Derived"
            THEN IF rel.subquery.body = "Select"
                 THEN IF IsSome(rel.subquery.selection)
                         /\ ContainsDateSub(Unwrap(rel.subquery.selection), retention_days)
                      THEN TRUE
                      ELSE IF rel.subquery.from # <<>>
                           THEN ContainsDateSubInFrom(rel.subquery.from, retention_days)
                           ELSE FALSE
                 ELSE FALSE
            ELSE FALSE

\* validate_sql_query looking at the first statement only
ValidateSqlQueryFirstOnly(text, retention_days) ==
    LET ast == ParseSql(text)
    IN  IF ~ast.ok THEN "Failed to parse SQL"
        ELSE IF ast.stmts[1].kind # "Delete" THEN "Only DELETE statements are allowed"
        ELSE IF ~IsSome(ast.stmts[1].selection)
             THEN "DELETE statement must have a WHERE clause and FROM clause"
        ELSE IF ~ContainsDateSub(Unwrap(ast.stmts[1].selection), retention_days)
             THEN "DELETE statement must use DATE_SUB function"
        ELSE "Ok"

\* SqlValidator::validate_sql_query: "Ok", or the error
ValidateSqlQuery(text, retention_days) ==
    LET ast == ParseSql(text)
    IN  IF ~ast.ok THEN "Failed to parse SQL"
        ELSE IF Len(ast.stmts) # 1 THEN "Only single SQL statement is allowed"
        ELSE IF ast.stmts[1].kind # "Delete" THEN "Only DELETE statements are allowed"
        ELSE IF ~IsSome(ast.stmts[1].selection)
             THEN "DELETE statement must have a WHERE clause and FROM clause"
        ELSE IF ~ContainsDateSub(Unwrap(ast.stmts[1].selection), retention_days)
             THEN "DELETE statement must use DATE_SUB function"
        ELSE "Ok"

RECURSIVE ReachesPanic(_)
RECURSIVE ReachesPanicInFrom(_)
\* contains_date_sub calls validate_interval on an interval on which it panics (the
\* traversal of contains_date_sub; no statement here has a second DATE_SUB call that
\* could end the search before it)
ReachesPanic(expr) ==
    CASE expr.t = "BinaryOp" ->
            IF expr.op \in {"Lt", "LtEq", "And"}
            THEN ReachesPanic(expr.left) \/ ReachesPanic(expr.right)
            ELSE FALSE
      [] expr.t = "Function" ->
            IF ToUpper(expr.name) = "DATE_SUB"
            THEN /\ expr.argsKind = "List"
                 /\ \E i \in DOMAIN expr.args :
                       expr.args[i].t = "Interval" /\ IntervalPanics(expr.args[i])
            ELSE FALSE
      [] expr.t = "InSubquery" ->
            \/ ReachesPanic(expr.expr)
            \/ IF expr.subquery.body = "Select"
               THEN IF IsSome(expr.subquery.selection)
                    THEN ReachesPanic(Unwrap(expr.subquery.selection))
                    ELSE ReachesPanicInFrom(expr.subquery.from)
               ELSE FALSE
      [] OTHER -> FALSE

ReachesPanicInFrom(from) ==
    \E i \in DOMAIN from :
        LET rel == from[i].relation
        IN  /\ rel.t = "Derived" /\ rel.subquery.body = "Select"
            /\ \/ IsSome(rel.subquery.selection) /\ ReachesPanic(Unwrap(rel.subquery.selection))
               \/ rel.subquery.from # <<>> /\ ReachesPanicInFrom(rel.subquery.from)

\* validate_sql_query in a build with overflow checks: "panic", or what it returns
ValidateSqlQueryChecked(text, retention_days) ==
    LET ast == ParseSql(text)
    IN  IF /\ ast.ok /\ Len(ast.stmts) = 1 /\ ast.stmts[1].kind = "Delete"
           /\ IsSome(ast.stmts[1].selection)
           /\ ReachesPanic(Unwrap(ast.stmts[1].selection))
        THEN "panic"
        ELSE ValidateSqlQuery(text, retention_days)

(***************************************************************************)
(* Template rendering.                                                     *)
(***************************************************************************)
\* "%Y-%m-%d %H:%M:%S": whole seconds, the sub-second part is dropped
FormatTime(t) == t \div 1000000

\* a placeholder's value in the context; minijinja's default environment renders an
\* undefined name as nothing
Lookup(context, name) == IF name \in DOMAIN context THEN context[name] ELSE ""

\* render going on with a template whose syntax is broken
RenderIgnoringSyntax(template, params, data_interval_end) ==
    LET context == [k \in DOMAIN params \cup {"data_interval_end"} |->
                        IF k = "data_interval_end" THEN data_interval_end ELSE params[k]]
    IN  [ok |-> TRUE,
         text |-> [shape |-> template.shape, lit |-> template.lit, n |-> template.n,
                   high |-> template.high, unit |-> template.unit,
                   table |-> Lookup(context, "table_name"),
                   die |-> Lookup(context, "data_interval_end"),
                   limit |-> Lookup(context, "batch_size")]]

\* TemplateEngine::render, as execute_cleanup_task calls it: the context is the
\* parameters with data_interval_end inserted over them
Render(template, params, data_interval_end) ==
    LET context == [k \in DOMAIN params \cup {"data_interval_end"} |->
                        IF k = "data_interval_end" THEN data_interval_end ELSE params[k]]
    IN  IF ~template.syntax_ok
        THEN [ok |-> FALSE, text |-> <<>>]
        ELSE [ok |-> TRUE,
              text |-> [shape |-> template.shape, lit |-> template.lit, n |-> template.n,
                        high |-> template.high, unit |-> template.unit,
                        table |-> IF "table_name" \in template.names
                                  THEN Lookup(context, "table_name")
                                  ELSE "validation_runs",      \* written out
                        die |-> Lookup(context, "data_interval_end"),
                        limit |-> Lookup(context, "batch_size")]]

(***************************************************************************)
(* The Task Executor: process_cleanup_task racing execute_cleanup_task     *)
(* against the deadline.  The future advances from one await to the next   *)
(* in one step; the deadline can win only while the future is pending at   *)
(* an await.                                                               *)
(***************************************************************************)
MaxRetry == 2        \* largest retry_attempts tried
MaxCalls == 3        \* execute_query calls after which no further non-empty batch is returned
MaxAffected == 2     \* largest affected-row count one batch returns

\* a statement template of one of the shapes, its interval written as a plain number
Template(syntax_ok, shape, n, unit) ==
    [syntax_ok |-> syntax_ok, shape |-> shape, lit |-> "number", n |-> n, high |-> FALSE,
     unit |-> unit, names |-> {"table_name", "data_interval_end", "batch_size"}]

Templates ==
    { Template(FALSE, "DeleteLt", 30, "Day"),
      Template(TRUE, "DeleteLt", 30, "Day"),
      Template(TRUE, "DeleteInDerived", 1, "Month"),
      Template(TRUE, "DeleteNoWhere", 30, "Day") }

ParamSets == { [table_name |-> "validation_runs"] }

Configs ==
    [ task_enabled : BOOLEAN,          \* CleanupTask.enabled
      safe_enabled : BOOLEAN,          \* Config.safe_mode.enabled
      retention_days : {30, 31},       \* Config.safe_mode.retention_days
      slack_enabled : BOOLEAN,         \* Config.slack_config.enabled
      password_empty : BOOLEAN,        \* Config.database_config.password.is_empty()
      retry_attempts : 1..MaxRetry,    \* CleanupTask.retry_attempts (> 0 by FullConfig::validate)
      batch_size : {MaxAffected},      \* CleanupTask.batch_size (> 0 by FullConfig::validate)
      template : Templates,            \* CleanupTask.template_query
      parameters : ParamSets,          \* CleanupTask.parameters
      data_interval_end : {60000000} ]  \* JobScheduleMetadata.data_interval_end

\* the deadline expiring before the future was first polled
AwaitPcsWithStart == {"start", "connect", "send_validation", "query", "pace", "backoff",
                      "send_success", "send_failure"}

\* the awaits of execute_cleanup_task, where the timeout of task.rs 70-74 can drop it:
\* 124 (db.rs 28-31), 183-185, 211, 263, 272-273, 233-238, 291-296
AwaitPcs == {"connect", "send_validation", "query", "pace", "backoff",
             "send_success", "send_failure"}

ExecInit ==
    /\ cfg \in Configs
    /\ pc = "start"
    /\ ppc = "racing"
    /\ sql = NoneOpt
    /\ attempt = 0
    /\ success = FALSE
    /\ total_rows = 0
    /\ total_time_elapsed = 0
    /\ tracker = [total_rows |-> 0, elapsed_time |-> 0]     \* ProgressTracker::default()
    /\ result = "none"
    /\ db = [connects |-> 0, rets |-> <<>>, hung |-> FALSE]
    /\ queries = <<>>
    /\ validated = {}
    /\ notes = <<>>
    /\ chan = <<>>
    /\ flight = NoneOpt

\* execute_cleanup_task returns res; the race is decided in the same poll
Finish(res) ==
    /\ pc' = "returned"
    /\ ppc' = "returned"
    /\ result' = res

\* CleanupMetadata handed to create_*_report, then send_to_channel is awaited
Report(kind, rows, elapsed) == [kind |-> kind, total_rows |-> rows, elapsed_time |-> elapsed]

BeginSend(msg) ==
    /\ notes' = Append(notes, msg)
    /\ flight' = Some([msg |-> msg, delivered |-> FALSE])

\* a second call started beside the one just issued
IssueQueryTwice(q) ==
    /\ pc' = "query"
    /\ queries' = Append(Append(queries, q), q)

\* db.execute_query(&sql) is called with statement q and awaited
IssueQuery(q) ==
    /\ pc' = "query"
    /\ queries' = Append(queries, q)

\* an off-by-one in the retry test
RetryLeftInclusive(a) == a <= cfg.retry_attempts

\* task.rs 208, 271: attempt < task.retry_attempts
RetryLeft(a) == a < cfg.retry_attempts

\* task.rs 275: attempt == task.retry_attempts
Exhausted(a) == a = cfg.retry_attempts

\* the budget given back by a successful batch
NextAttemptReset(a, failed) == IF failed THEN a + 1 ELSE 0

\* every returned call consuming retry budget
NextAttemptAlways(a, failed) == a + 1

\* task.rs 266: attempt += 1 on the Err arm; the Ok arm (212-264) does not assign attempt
NextAttempt(a, failed) == IF failed THEN a + 1 ELSE a

\* the running total overwritten by the last batch
AccumulateLast(total, affected_rows) == affected_rows

\* task.rs 248: total_rows += affected_rows
Accumulate(total, affected_rows) == total + affected_rows

\* the shared progress left as it was after a batch
TrackerKept(rows, elapsed) == tracker

\* task.rs 250-254: the shared progress written under the lock after a non-zero batch
TrackerUpdate(rows, elapsed) == [total_rows |-> rows, elapsed_time |-> elapsed]

\* the timeout path reading a fresh tracker instead of the shared one
ProgressSnapshotFresh == [total_rows |-> 0, elapsed_time |-> 0]

\* task.rs 80-83: the progress read under the lock on the timeout path
ProgressSnapshot == tracker

\* task.rs 208: the head of `'outer: while attempt < task.retry_attempts`, reached with
\* attempt = a and success = FALSE; past the loop, `if !success` returns the error
LoopHead(a, q) ==
    IF RetryLeft(a)
    THEN IssueQuery(q) /\ UNCHANGED <<ppc, result>>
    ELSE Finish("ExecutionError") /\ UNCHANGED queries

\* task.rs 124: Database::new begins; an empty password is refused before connecting
Start ==
    /\ pc = "start"
    /\ IF cfg.password_empty
       THEN Finish("ConnectionError") /\ UNCHANGED db
       ELSE /\ pc' = "connect"
            /\ db' = [db EXCEPT !.connects = @ + 1]
            /\ UNCHANGED <<ppc, result>>
    /\ UNCHANGED <<cfg, sql, attempt, success, total_rows, total_time_elapsed, tracker,
                   queries, validated, notes, chan, flight, svars>>

\* the gate ignoring the validator's verdict
SafetyGateOpen(q) == TRUE

\* task.rs 164-198: the safety gate on the rendered statement q; TRUE when q may run
SafetyGate(q) == cfg.safe_enabled => ValidateSqlQuery(q, cfg.retention_days) = "Ok"

\* task.rs 155-162: batch_size is inserted into the task's parameters and the template
\* is rendered with them and the formatted data_interval_end
RenderTask(c) ==
    Render(c.template,
           [k \in DOMAIN c.parameters \cup {"batch_size"} |->
               IF k = "batch_size" THEN c.batch_size ELSE c.parameters[k]],
           FormatTime(c.data_interval_end))

\* task.rs 125-211: Database::new returns; on Ok the future runs on through the
\* disabled check, rendering and validation to its next await
ConnectReturn(ok) ==
    /\ pc = "connect"
    /\ LET r == RenderTask(cfg)
       IN  IF ~ok
           THEN Finish("ConnectionError") /\ UNCHANGED <<queries, sql, validated, notes, flight>>
           ELSE IF ~cfg.task_enabled
           THEN Finish("Ok") /\ UNCHANGED <<queries, sql, validated, notes, flight>>
           ELSE IF ~r.ok
           THEN Finish("RenderError") /\ UNCHANGED <<queries, sql, validated, notes, flight>>
           ELSE /\ sql' = Some(r.text)
                /\ validated' = IF cfg.safe_enabled
                                   /\ ValidateSqlQuery(r.text, cfg.retention_days) = "Ok"
                                THEN validated \cup {r.text} ELSE validated
                /\ IF SafetyGate(r.text)
                   THEN LoopHead(0, r.text) /\ UNCHANGED <<notes, flight>>
                   ELSE IF cfg.slack_enabled
                   THEN /\ BeginSend(Report("validation", 0, 0))
                        /\ pc' = "send_validation"
                        /\ UNCHANGED <<ppc, result, queries>>
                   ELSE Finish("ValidationError") /\ UNCHANGED <<queries, notes, flight>>
    /\ UNCHANGED <<cfg, attempt, success, total_rows, total_time_elapsed, tracker, db, chan,
                   svars>>

\* task.rs 212-264: execute_query returns Ok((affected_rows, elapsed_in_secs))
DbReturnOk(affected_rows, elapsed_in_secs) ==
    /\ pc = "query" /\ ppc = "racing" /\ ~db.hung
    /\ affected_rows > 0 => Len(queries) < MaxCalls
    /\ db' = [db EXCEPT !.rets = Append(@, [ok |-> TRUE, rows |-> affected_rows])]
    /\ IF affected_rows = 0
       THEN /\ success' = TRUE
            /\ IF cfg.slack_enabled
               THEN /\ BeginSend(Report("success", total_rows, total_time_elapsed))
                    /\ pc' = "send_success"
                    /\ UNCHANGED <<ppc, result>>
               ELSE Finish("Ok") /\ UNCHANGED <<notes, flight>>
            /\ UNCHANGED <<total_rows, total_time_elapsed, tracker>>
       ELSE /\ total_time_elapsed' = total_time_elapsed + elapsed_in_secs
            /\ total_rows' = Accumulate(total_rows, affected_rows)
            /\ tracker' = TrackerUpdate(total_rows', total_time_elapsed')
            /\ pc' = "pace"
            /\ UNCHANGED <<success, ppc, result, notes, flight>>
    /\ attempt' = NextAttempt(attempt, FALSE)
    /\ UNCHANGED <<cfg, sql, queries, validated, chan, svars>>

\* task.rs 265-305: execute_query returns Err
DbReturnErr ==
    /\ pc = "query" /\ ppc = "racing" /\ ~db.hung
    /\ db' = [db EXCEPT !.rets = Append(@, [ok |-> FALSE, rows |-> 0])]
    /\ attempt' = NextAttempt(attempt, TRUE)
    /\ IF RetryLeft(attempt')
       THEN pc' = "backoff" /\ UNCHANGED <<ppc, result, queries, notes, flight>>
       ELSE IF Exhausted(attempt') /\ cfg.slack_enabled
       THEN /\ BeginSend(Report("failure", total_rows, total_time_elapsed))
            /\ pc' = "send_failure"
            /\ UNCHANGED <<ppc, result, queries>>
       ELSE LoopHead(attempt', Unwrap(sql)) /\ UNCHANGED <<notes, flight>>
    /\ UNCHANGED <<cfg, sql, success, total_rows, total_time_elapsed, tracker, validated,
                   chan, svars>>

\* the database never answers the call in progress
DbHang ==
    /\ pc = "query" /\ ppc = "racing" /\ ~db.hung
    /\ db' = [db EXCEPT !.hung = TRUE]
    /\ UNCHANGED <<cfg, pc, ppc, sql, attempt, success, total_rows, total_time_elapsed,
                   tracker, result, queries, validated, notes, chan, flight, svars>>

\* task.rs 263: the pacing sleep ends; the inner `loop` runs the statement again
PaceDone ==
    /\ pc = "pace" /\ ppc = "racing"
    /\ IssueQuery(Unwrap(sql))
    /\ UNCHANGED <<cfg, ppc, sql, attempt, success, total_rows, total_time_elapsed, tracker,
                   result, db, validated, notes, chan, flight, svars>>

\* task.rs 272-304: the backoff sleep ends; `break` leaves the inner loop for the head
\* of the outer one
BackoffDone ==
    /\ pc = "backoff" /\ ppc = "racing"
    /\ LoopHead(attempt, Unwrap(sql))
    /\ UNCHANGED <<cfg, sql, attempt, success, total_rows, total_time_elapsed, tracker, db,
                   validated, notes, chan, flight, svars>>

\* the notification channel receives the message of the send in progress
Deliver ==
    /\ IsSome(flight) /\ ~Unwrap(flight).delivered
    /\ chan' = Append(chan, Unwrap(flight).msg)
    /\ flight' = Some([Unwrap(flight) EXCEPT !.delivered = TRUE])
    /\ UNCHANGED <<cfg, pc, ppc, sql, attempt, success, total_rows, total_time_elapsed,
                   tracker, result, db, queries, validated, notes, svars>>

\* the validation failure forgotten once its report is sent
AfterSendOk(p) == "Ok"

\* a status outside the firing's outcomes
AfterSendOther(p) == "NotificationError"

\* what execute_cleanup_task returns once the send awaited at position p has
\* returned; whether the send was Ok or Err is only logged
AfterSend(p) ==
    CASE p = "send_validation" -> "ValidationError"     \* task.rs 192
      [] p = "send_success" -> "Ok"                     \* task.rs 245 break 'outer, 310, 319

\* a failed send ending the firing with an error of its own
SendReturnEscalating(ok) ==
    /\ pc \in {"send_validation", "send_success", "send_failure"} /\ ppc = "racing"
    /\ ok => Unwrap(flight).delivered
    /\ flight' = NoneOpt
    /\ IF ~ok
       THEN Finish("NotificationError") /\ UNCHANGED queries
       ELSE IF pc = "send_failure"
       THEN LoopHead(attempt, Unwrap(sql))
       ELSE Finish(AfterSend(pc)) /\ UNCHANGED queries
    /\ UNCHANGED <<cfg, sql, attempt, success, total_rows, total_time_elapsed, tracker, db,
                   validated, notes, chan, svars>>

\* task.rs 186-190, 239-243, 297-301: send_to_channel returns inside
\* execute_cleanup_task; Ok or Err, the result is only logged
SendReturn(ok) ==
    /\ pc \in {"send_validation", "send_success", "send_failure"} /\ ppc = "racing"
    /\ ok => Unwrap(flight).delivered
    /\ flight' = NoneOpt
    /\ IF pc = "send_failure"
       THEN LoopHead(attempt, Unwrap(sql))       \* task.rs 304: break, back to the head
       ELSE Finish(AfterSend(pc)) /\ UNCHANGED queries
    /\ UNCHANGED <<cfg, sql, attempt, success, total_rows, total_time_elapsed, tracker, db,
                   validated, notes, chan, svars>>

\* the timeout error determined while the execute future is kept and polled on
TimeoutFutureKept ==
    /\ ppc = "racing" /\ pc \in AwaitPcs /\ result = "none"
    /\ result' = "TimeoutError"
    /\ UNCHANGED <<cfg, pc, ppc, sql, attempt, success, total_rows, total_time_elapsed,
                   tracker, db, queries, validated, notes, chan, flight, svars>>

\* task.rs 78-113: the deadline wins the race; the pending future is dropped, the
\* progress is read under the lock and reported
Timeout ==
    /\ ppc = "racing" /\ pc \in AwaitPcs
    /\ pc' = "dropped"
    /\ IF cfg.slack_enabled
       THEN /\ BeginSend(Report("timeout", ProgressSnapshot.total_rows,
                                   ProgressSnapshot.elapsed_time))
            /\ ppc' = "send_timeout"
            /\ UNCHANGED result
       ELSE /\ ppc' = "returned"
            /\ result' = "TimeoutError"
            /\ flight' = NoneOpt
            /\ UNCHANGED notes
    /\ UNCHANGED <<cfg, sql, attempt, success, total_rows, total_time_elapsed, tracker, db,
                   queries, validated, chan, svars>>

\* task.rs 101-112: the send of the timeout report returns
TimeoutSendReturn(ok) ==
    /\ ppc = "send_timeout"
    /\ ok => Unwrap(flight).delivered
    /\ flight' = NoneOpt
    /\ ppc' = "returned"
    /\ result' = "TimeoutError"
    /\ UNCHANGED <<cfg, pc, sql, attempt, success, total_rows, total_time_elapsed, tracker,
                   db, queries, validated, notes, chan, svars>>

ElapsedSet == {1}     \* elapsed_in_secs of a batch: Instant::elapsed of a round trip, > 0

ExecNext ==
    \/ Start
    \/ \E ok \in BOOLEAN : ConnectReturn(ok)
    \/ \E n \in 0..MaxAffected, e \in ElapsedSet : DbReturnOk(n, e)
    \/ DbReturnErr
    \/ DbHang
    \/ PaceDone
    \/ BackoffDone
    \/ Deliver
    \/ \E ok \in BOOLEAN : SendReturn(ok)
    \/ Timeout
    \/ \E ok \in BOOLEAN : TimeoutSendReturn(ok)

\* the Scheduler's variables while one firing is studied alone
SchedIdle ==
    /\ now = 0
    /\ jobs = <<>>
    /\ spc = "idle"
    /\ tick = [due |-> <<>>, wake |-> 0]
    /\ handed = <<>>
    /\ firedAt = <<>>
    /\ acts = <<>>
    /\ born = 0

InitExec == ExecInit /\ SchedIdle

SpecExec == InitExec /\ [][ExecNext]_vars

(***************************************************************************)
(* The statement of one firing on its own: rendered from the task's         *)
(* template, then validated (task.rs 155-167).                             *)
(***************************************************************************)
Units == {"Day", "Month", "Year", "Hour", "None"}       \* Interval.leading_field
AllNames == {"table_name", "data_interval_end", "batch_size"}
StatementTemplates ==
    LET plain == [syntax_ok : {TRUE}, shape : {"DeleteLt"},
                  lit : {"number", "fraction", "long", "quoted", "negative"},
                  n : {0, 1, 30, 31}, high : {FALSE}, unit : Units,
                  names : {AllNames, AllNames \ {"table_name"}}]
        large == [syntax_ok : {TRUE}, shape : {"DeleteLt"}, lit : {"number"},
                  n : {0, 1, 2^15}, high : {TRUE}, unit : Units,
                  names : {AllNames}]
        other == [syntax_ok : {TRUE}, shape : Shapes \ {"DeleteLt"}, lit : {"number"},
                  n : {1, 30}, high : {FALSE}, unit : {"Day", "Month"},
                  names : {AllNames, AllNames \ {"table_name"}}]
    IN  plain \cup large \cup other \cup {Template(FALSE, "DeleteLt", 30, "Day")}

StatementConfigs ==
    [ template : StatementTemplates,
      parameters : ParamSets \cup {<<>>},          \* with and without table_name
      batch_size : {MaxAffected},
      retention_days : {0, 30, 31, 365, 366},
      overflow_checks : BOOLEAN,                   \* the build profile's overflow-checks
      data_interval_end : {60000000} ]

StatementInit ==
    /\ cfg \in StatementConfigs
    /\ pc = "render"
    /\ ppc = "racing"
    /\ sql = NoneOpt
    /\ attempt = 0
    /\ success = FALSE
    /\ total_rows = 0
    /\ total_time_elapsed = 0
    /\ tracker = [total_rows |-> 0, elapsed_time |-> 0]
    /\ result = "none"
    /\ db = [connects |-> 0, rets |-> <<>>, hung |-> FALSE]
    /\ queries = <<>>
    /\ validated = {}
    /\ notes = <<>>
    /\ chan = <<>>
    /\ flight = NoneOpt

\* task.rs 155-162: template_engine.render(..)?
RenderStep ==
    /\ pc = "render"
    /\ LET r == RenderTask(cfg)
       IN  IF r.ok
           THEN sql' = Some(r.text) /\ pc' = "validate" /\ UNCHANGED result
           ELSE result' = "RenderError" /\ pc' = "done" /\ UNCHANGED sql
    /\ UNCHANGED <<cfg, ppc, attempt, success, total_rows, total_time_elapsed, tracker, db,
                   queries, validated, notes, chan, flight, svars>>

\* task.rs 166-167: validator.validate_sql_query(&sql)
ValidateStep ==
    /\ pc = "validate"
    /\ result' = IF cfg.overflow_checks
                 THEN ValidateSqlQueryChecked(Unwrap(sql), cfg.retention_days)
                 ELSE ValidateSqlQuery(Unwrap(sql), cfg.retention_days)
    /\ pc' = "done"
    /\ UNCHANGED <<cfg, ppc, sql, attempt, success, total_rows, total_time_elapsed, tracker,
                   db, queries, validated, notes, chan, flight, svars>>

StatementNext == RenderStep \/ ValidateStep

InitStatement == StatementInit /\ SchedIdle

SpecStatement == InitStatement /\ [][StatementNext]_vars

(***************************************************************************)
(* The Scheduler and its Jobs.  A cron schedule is its period and, for a   *)
(* schedule that ends (a year field), its last occurrence; occurrences are *)
(* the positive multiples of the period up to it.                          *)
(***************************************************************************)
NJobs == 2             \* main.rs registers two Jobs
EpsilonMicros == 700   \* core.rs 40: Duration::from_micros(700)
MillisMicros == 1000   \* core.rs 20: Duration::as_millis
MaxTime == 3000000     \* wall-clock time after which the run loop is not followed further

EverySecond == [period |-> 1000000, finite |-> FALSE, last |-> 0]
EveryTwo == [period |-> 2000000, finite |-> FALSE, last |-> 0]       \* main.rs 92: "*/2 * * * * *"
TwoSeconds == [period |-> 1000000, finite |-> TRUE, last |-> 2000000] \* ends after its second occurrence

\* the schedules of the registered Jobs
JobSets == { <<EverySecond, EveryTwo>>, <<TwoSeconds, EveryTwo>>, <<EveryTwo, EveryTwo>>,
             <<TwoSeconds, TwoSeconds>> }

ConstructTimes == {200, 999500}   \* Utc::now() in Job::new
StartDelays == {0, 600}           \* from Job::new to the first Scheduler::until
Lateness == {0, 400, 1100000}     \* how long after its deadline tokio::time::sleep returns

\* schedule.after(&t).next(): the earliest occurrence strictly after t, if any
NextOccurrence(schedule, t) ==
    LET n == ((t \div schedule.period) + 1) * schedule.period
    IN  IF schedule.finite /\ n > schedule.last THEN NoneOpt ELSE Some(n)

\* get_next_schedule taking a reference time that lies on an occurrence as its own next
GetNextScheduleInclusive(schedule, t) ==
    IF t > 0 /\ t % schedule.period = 0 /\ (schedule.finite => t <= schedule.last)
    THEN t
    ELSE IF IsSome(NextOccurrence(schedule, t)) THEN Unwrap(NextOccurrence(schedule, t)) ELSE t

\* Job::get_next_schedule: unwrap_or(now)
GetNextSchedule(schedule, t) ==
    LET n == NextOccurrence(schedule, t)
    IN  IF IsSome(n) THEN Unwrap(n) ELSE t

\* Job::new at wall-clock time t
JobNew(schedule, t) ==
    [schedule |-> schedule,
     last_run |-> NoneOpt,
     schedule_metadata |-> [data_interval_end |-> GetNextSchedule(schedule, t)]]

\* a Job that has run once reporting no further occurrence
JobUntilOnce(job, t) ==
    IF IsSome(job.last_run) THEN NoneOpt
    ELSE IF IsSome(NextOccurrence(job.schedule, t))
    THEN Some(Unwrap(NextOccurrence(job.schedule, t)) - t)
    ELSE NoneOpt

\* Job::until with Utc::now() = t: the duration in microseconds
JobUntil(job, t) ==
    LET ref == IF IsSome(job.last_run) THEN Unwrap(job.last_run) ELSE t
        upcoming == NextOccurrence(job.schedule, ref)
    IN  IF IsSome(upcoming)
        THEN IF Unwrap(upcoming) - t >= 0       \* to_std() fails on a negative duration
             THEN Some(Unwrap(upcoming) - t)
             ELSE Some(0)
        ELSE NoneOpt

RECURSIVE UntilLoop(_, _, _, _)
\* core.rs 18-29: the loop over self.jobs from job i on; times[i] is Utc::now() when
\* job i is asked; acc holds next_jobs and next_job_duration
UntilLoop(js, times, i, acc) ==
    IF i > Len(js) THEN acc
    ELSE LET d == JobUntil(js[i], times[i])
         IN  IF ~IsSome(d) THEN UntilLoop(js, times, i + 1, acc)
             ELSE LET duration_millis == Unwrap(d) \div MillisMicros
                  IN  IF ~IsSome(acc.next_job_duration)
                         \/ duration_millis < Unwrap(acc.next_job_duration)
                      THEN UntilLoop(js, times, i + 1,
                                     [next_jobs |-> <<i>>,
                                      next_job_duration |-> Some(duration_millis)])
                      ELSE IF duration_millis = Unwrap(acc.next_job_duration)
                      THEN UntilLoop(js, times, i + 1,
                                     [acc EXCEPT !.next_jobs = Append(@, i)])
                      ELSE UntilLoop(js, times, i + 1, acc)

\* until() returning every Job that has an occurrence left, tied or not
SchedulerUntilAllDue(js, times) ==
    LET r == UntilLoop(js, times, 1, [next_jobs |-> <<>>, next_job_duration |-> NoneOpt])
        RECURSIVE Due(_)
        Due(i) == IF i > Len(js) THEN <<>>
                  ELSE IF IsSome(JobUntil(js[i], times[i])) THEN <<i>> \o Due(i + 1)
                  ELSE Due(i + 1)
    IN  [r EXCEPT !.next_jobs = Due(1)]

\* Scheduler::until: the tied jobs and the duration (in milliseconds), or none
SchedulerUntil(js, times) ==
    UntilLoop(js, times, 1, [next_jobs |-> <<>>, next_job_duration |-> NoneOpt])

SchedInit ==
    /\ born \in ConstructTimes
    /\ \E d \in StartDelays : now = born + d
    /\ \E scheds \in JobSets :
          jobs = [i \in 1..NJobs |-> JobNew(scheds[i], born)]
    /\ spc = "loop"
    /\ tick = [due |-> <<>>, wake |-> 0]
    /\ handed = [i \in 1..NJobs |-> <<>>]
    /\ firedAt = [i \in 1..NJobs |-> <<>>]
    /\ acts = <<>>

\* core.rs 36-40 with 15-34: the head of the run loop: until(), then the sleep begins
\* or start returns.  skew is the wall-clock time that passes from one job.until() to
\* the next in the loop of Scheduler::until.
SchedUntilAt(skew) ==
    /\ spc = "loop" /\ now <= MaxTime
    /\ LET times == [i \in 1..Len(jobs) |-> now + (i - 1) * skew]
           r == SchedulerUntil(jobs, times)
           t == IF Len(jobs) = 0 THEN now ELSE times[Len(jobs)]
       IN  /\ now' = t
           /\ IF IsSome(r.next_job_duration)
              THEN /\ spc' = "sleep"
                   /\ tick' = [due |-> r.next_jobs,
                               wake |-> t + Unwrap(r.next_job_duration) * MillisMicros
                                          + EpsilonMicros]
              ELSE /\ spc' = "stopped"
                   /\ UNCHANGED tick
    /\ UNCHANGED <<jobs, handed, firedAt, acts, born, evars>>

\* the run loop's until() with all Jobs asked at the same microsecond
SchedUntil == SchedUntilAt(0)

\* core.rs 40: the sleep returns, no earlier than its deadline
SchedWake(late) ==
    /\ spc = "sleep"
    /\ now' = Max(now, tick.wake) + late
    /\ spc' = "fire"
    /\ UNCHANGED <<jobs, tick, handed, firedAt, acts, born, evars>>

\* the action handed the value the clock is about to take
DispatchAdvanced(j, metadata) ==
    Append(acts, [job |-> j,
                  metadata |-> [data_interval_end |->
                                   GetNextSchedule(jobs[j].schedule,
                                                   metadata.data_interval_end)],
                  hung |-> FALSE, detached |-> TRUE])

\* run() awaiting the action's future itself instead of spawning it
DispatchInline(j, metadata) ==
    Append(acts, [job |-> j, metadata |-> metadata, hung |-> FALSE, detached |-> FALSE])

\* job.rs 80-83: the action's future is built from a copy of the metadata and spawned
Dispatch(j, metadata) ==
    Append(acts, [job |-> j, metadata |-> metadata, hung |-> FALSE, detached |-> TRUE])

\* the firing time recorded in every registered Job
RecordRunAll(js, j, t) == [i \in DOMAIN js |-> [js[i] EXCEPT !.last_run = Some(t)]]

\* job.rs 76-78: self.last_run = Some(now), on the Job being run
RecordRun(js, j, t) == [js EXCEPT ![j].last_run = Some(t)]

\* job.rs 76-83: Job::run on the next tied job, up to the spawn
JobRunSpawn ==
    /\ spc = "fire"
    /\ LET j == Head(tick.due)
       IN  /\ jobs' = RecordRun(jobs, j, now)
           /\ acts' = Dispatch(j, jobs[j].schedule_metadata)
           /\ handed' = [handed EXCEPT ![j] = Append(@, jobs[j].schedule_metadata.data_interval_end)]
           /\ firedAt' = [firedAt EXCEPT ![j] = Append(@, now)]
    /\ spc' = "advance"
    /\ UNCHANGED <<now, tick, born, evars>>

\* the logical clock advanced from the wall clock
NextLogicalFromNow(job, t) == GetNextSchedule(job.schedule, t)

\* job.rs 84-85: the next logical clock value of a job run at wall-clock time t
NextLogical(job, t) == GetNextSchedule(job.schedule, job.schedule_metadata.data_interval_end)

\* job.rs 84-88: Job::run after the spawn: the logical clock is advanced; run returns
\* to the loop over the tied jobs (core.rs 41-43)
JobRunUpdate ==
    /\ spc = "advance"
    /\ \A a \in DOMAIN acts : acts[a].detached      \* nothing run() itself awaits is pending
    /\ LET j == Head(tick.due)
       IN  jobs' = [jobs EXCEPT ![j].schedule_metadata.data_interval_end = NextLogical(jobs[j], now)]
    /\ tick' = [tick EXCEPT !.due = Tail(@)]
    /\ spc' = IF Tail(tick.due) = <<>> THEN "loop" ELSE "fire"
    /\ UNCHANGED <<now, handed, firedAt, acts, born, evars>>

RemoveAt(seq, a) == [i \in 1..(Len(seq) - 1) |-> IF i < a THEN seq[i] ELSE seq[i + 1]]

\* a dispatched action returns; main.rs 83-85 logs an Err and drops it
ActEnd(a) ==
    /\ a \in DOMAIN acts /\ ~acts[a].hung
    /\ acts' = RemoveAt(acts, a)
    /\ UNCHANGED <<now, jobs, spc, tick, handed, firedAt, born, evars>>

\* a dispatched action never returns
ActHang(a) ==
    /\ a \in DOMAIN acts /\ ~acts[a].hung
    /\ acts' = [acts EXCEPT ![a].hung = TRUE]
    /\ UNCHANGED <<now, jobs, spc, tick, handed, firedAt, born, evars>>

SchedLoop ==
    \/ SchedUntil
    \/ \E late \in Lateness : SchedWake(late)
    \/ JobRunSpawn
    \/ JobRunUpdate

SchedNext ==
    \/ SchedLoop
    \/ \E a \in DOMAIN acts : ActEnd(a)
    \/ \E a \in DOMAIN acts : ActHang(a)

\* the Task Executor's variables while the Scheduler is studied alone
ExecIdle ==
    /\ cfg = [task_enabled |-> FALSE]
    /\ pc = "start"
    /\ ppc = "racing"
    /\ sql = NoneOpt
    /\ attempt = 0
    /\ success = FALSE
    /\ total_rows = 0
    /\ total_time_elapsed = 0
    /\ tracker = [total_rows |-> 0, elapsed_time |-> 0]
    /\ result = "none"
    /\ db = [connects |-> 0, rets |-> <<>>, hung |-> FALSE]
    /\ queries = <<>>
    /\ validated = {}
    /\ notes = <<>>
    /\ chan = <<>>
    /\ flight = NoneOpt

InitSched == SchedInit /\ ExecIdle

SpecSched == InitSched /\ [][SchedNext]_vars

\* the run loop is a task the runtime keeps polling and its sleeps end; nothing is
\* assumed of the dispatched actions
SpecSchedFair == SpecSched /\ WF_vars(SchedLoop)

(***************************************************************************)
(* Scheduler::until on its own: one call over Jobs in any of the states a   *)
(* Job can be in (never run, or last run at some earlier wall-clock time).  *)
(***************************************************************************)
MaxUntilJobs == 3      \* Jobs registered with the Scheduler in SpecUntil
UntilSchedules == {EverySecond, EveryTwo, TwoSeconds}
UntilLastRuns == {NoneOpt, Some(999900), Some(1000300), Some(2000100)}   \* Job.last_run
UntilNows == {1000300, 1999300, 2000100}     \* Utc::now() when until() is called
UntilSkews == {0, 1, 400}                    \* time from one job.until() to the next

\* a Job run n times since its construction at time 200 (n = 0 when last_run is None)
JobAfterRuns(schedule, last_run) ==
    LET fresh == JobNew(schedule, 200)
        first == fresh.schedule_metadata.data_interval_end
    IN  IF IsSome(last_run)
        THEN [fresh EXCEPT !.last_run = last_run,
                           !.schedule_metadata.data_interval_end =
                               GetNextSchedule(schedule, first)]
        ELSE fresh

UntilInit ==
    /\ now \in UntilNows
    /\ born = 200
    /\ \E scheds \in [1..MaxUntilJobs -> UntilSchedules] :
       \E runs \in [1..MaxUntilJobs -> UntilLastRuns] :
          /\ \A i \in 1..MaxUntilJobs : IsSome(runs[i]) => Unwrap(runs[i]) <= now
          /\ jobs = [i \in 1..MaxUntilJobs |-> JobAfterRuns(scheds[i], runs[i])]
    /\ spc = "loop"
    /\ tick = [due |-> <<>>, wake |-> 0]
    /\ handed = [i \in 1..MaxUntilJobs |-> <<>>]
    /\ firedAt = [i \in 1..MaxUntilJobs |-> <<>>]
    /\ acts = <<>>

UntilCall == \E skew \in UntilSkews : SchedUntilAt(skew)

InitUntil == UntilInit /\ ExecIdle

SpecUntil == InitUntil /\ [][UntilCall]_vars

(***************************************************************************)
(* Registration: main.rs builds each Job with Job::new and adds it to the   *)
(* Scheduler.                                                               *)
(***************************************************************************)
NewNows == {200, 999500, 1000000, 1000300, 1999700, 2000000, 2000100, 2500000,
            3000000, 3000200}         \* wall-clock time when registration begins
NewLags == {0, 300}                   \* time from there to Utc::now() in Job::new

RegisterInit ==
    /\ now \in NewNows
    /\ born = now
    /\ jobs = <<>>
    /\ spc = "register"
    /\ tick = [due |-> <<>>, wake |-> 0]
    /\ handed = <<>>
    /\ firedAt = <<>>
    /\ acts = <<>>

\* main.rs 79-98: scheduler.add(Job::new(name, schedule, function).unwrap())
JobAdd(schedule, lag) ==
    /\ spc = "register" /\ Len(jobs) < NJobs
    /\ now' = now + lag
    /\ jobs' = Append(jobs, JobNew(schedule, now'))
    /\ UNCHANGED <<spc, tick, handed, firedAt, acts, born, evars>>

Register == \E schedule \in UntilSchedules, lag \in NewLags : JobAdd(schedule, lag)

InitRegister == RegisterInit /\ ExecIdle

SpecRegister == InitRegister /\ [][Register]_vars

(***************************************************************************)
(* Properties of one firing (SpecExec).                                    *)
(***************************************************************************)
CountKind(seq, kind) == Cardinality({i \in DOMAIN seq : seq[i].kind = kind})
OkRows(rets) == SumSeq([i \in DOMAIN rets |-> IF rets[i].ok THEN rets[i].rows ELSE 0])
Errors(rets) == Cardinality({i \in DOMAIN rets : ~rets[i].ok})
Returned == ppc = "returned"
\* the execute future ran to its own return: the deadline did not expire
NoDeadline == pc = "returned"
Notified(kind) == IF cfg.slack_enabled THEN CountKind(notes, kind) = 1 ELSE notes = <<>>

\* C1: with SafetyPolicy.enabled, every statement handed to execute_query is one for
\* which the validator returned Ok earlier in the same firing.
C1_ValidatedBeforeExecute ==
    cfg.safe_enabled => \A i \in DOMAIN queries : queries[i] \in validated

C1_Witness == cfg.safe_enabled /\ Len(queries) >= 2 /\ queries[2] \in validated

\* the validator rejected the rendered statement of this firing
Rejected ==
    /\ cfg.safe_enabled
    /\ IsSome(sql)
    /\ ValidateSqlQuery(Unwrap(sql), cfg.retention_days) # "Ok"

\* C2 as stated: on a rejection nothing has touched the database, exactly one failure
\* notification is attempted and the result is a ValidationError.
C2_Original ==
    Rejected => /\ db.connects = 0 /\ queries = <<>>
                /\ Returned => result = "ValidationError" /\ CountKind(notes, "validation") = 1

\* C2 amended: on a rejection no statement is ever executed (the connection was opened
\* before validation); a failure notification is attempted exactly once when
\* notifications are enabled and never otherwise; the result is a ValidationError
\* unless the deadline expired during that send, and then a TimeoutError.
C2_RejectionAborts ==
    Rejected => /\ queries = <<>> /\ db.rets = <<>> /\ db.connects = 1
                /\ CountKind(notes, "validation") = IF cfg.slack_enabled THEN 1 ELSE 0
                /\ CountKind(notes, "success") = 0 /\ CountKind(notes, "failure") = 0
                /\ Returned /\ NoDeadline => result = "ValidationError"
                /\ Returned /\ ~NoDeadline => result = "TimeoutError" /\ cfg.slack_enabled

C2_Witness ==
    /\ Rejected /\ Returned /\ NoDeadline /\ cfg.slack_enabled
    /\ result = "ValidationError" /\ Len(chan) = 1

\* C3 as stated: the notification channel receives at most one notification per firing,
\* whatever the interleaving with the deadline.
C3_AtMostOneDelivered == Len(chan) <= 1

Outcomes5 == {"Ok", "RenderError", "ValidationError", "ExecutionError", "TimeoutError"}

\* C4 as stated: a firing that returns ends in one of the five outcomes.
C4_Original == Returned => result \in Outcomes5

\* C4 amended: a firing that returns ends in exactly one of six outcomes: the five, or
\* a ConnectionError raised while opening the database connection.
C4_SixOutcomes ==
    /\ Returned => result \in Outcomes5 \cup {"ConnectionError"}
    /\ ~Returned => result = "none"

C4_Witness == Returned /\ result = "ConnectionError" /\ db.connects = 1

\* every execute_query call of the firing returned an error, and the deadline did not expire
AllErrors == Returned /\ NoDeadline /\ queries # <<>> /\ Errors(db.rets) = Len(db.rets)

\* C7 as stated: retry_attempts executions of the same statement, then ExecutionError
\* and exactly one failure notification, none before the last failed attempt.
C7_Original ==
    /\ AllErrors => /\ Len(queries) = cfg.retry_attempts
                    /\ \A i \in DOMAIN queries : queries[i] = Unwrap(sql)
                    /\ result = "ExecutionError"
                    /\ CountKind(notes, "failure") = 1
    /\ CountKind(notes, "failure") >= 1 => Errors(db.rets) = cfg.retry_attempts

\* C7 amended: as stated, but the failure notification is attempted exactly once only
\* when notifications are enabled, and not at all otherwise.
C7_RetryExhaustion ==
    /\ AllErrors => /\ Len(queries) = cfg.retry_attempts
                    /\ \A i \in DOMAIN queries : queries[i] = Unwrap(sql)
                    /\ result = "ExecutionError"
                    /\ Notified("failure")
    /\ CountKind(notes, "failure") <= 1
    /\ CountKind(notes, "failure") = 1 => Errors(db.rets) = cfg.retry_attempts

C7_Witness ==
    /\ AllErrors /\ cfg.retry_attempts >= 2 /\ Len(queries) = cfg.retry_attempts
    /\ cfg.slack_enabled /\ notes = <<Report("failure", 0, 0)>>

\* k non-empty batches, then an empty one; no error, no deadline expiry
Drained ==
    /\ Returned /\ NoDeadline /\ db.rets # <<>> /\ Errors(db.rets) = 0
    /\ db.rets[Len(db.rets)].rows = 0

\* C8 as stated: Succeeded after k+1 executions, and exactly one success notification
\* carrying the sum of the batch counts.
C8_Original ==
    Drained => /\ result = "Ok"
               /\ Len(queries) = Len(db.rets)
               /\ \A i \in 1..(Len(db.rets) - 1) : db.rets[i].rows > 0
               /\ CountKind(notes, "success") = 1
               /\ \A i \in DOMAIN notes : notes[i].total_rows = OkRows(db.rets)

\* C8 amended: as stated, but the success notification is attempted exactly once only
\* when notifications are enabled, and not at all otherwise.
C8_DrainSucceeds ==
    Drained => /\ result = "Ok"
               /\ Len(queries) = Len(db.rets)
               /\ \A i \in 1..(Len(db.rets) - 1) : db.rets[i].rows > 0
               /\ Notified("success")
               /\ \A i \in DOMAIN notes : notes[i].total_rows = OkRows(db.rets)

C8_Witness ==
    /\ Drained /\ cfg.slack_enabled /\ Len(queries) = 3
    /\ db.rets[1].rows = cfg.batch_size /\ db.rets[2].rows = cfg.batch_size
    /\ notes = <<Report("success", 2 * cfg.batch_size, 2)>>

\* C9 as stated: a call that never returns ends the firing in a TimeoutError with
\* exactly one timeout notification carrying the recorded progress.
C9_Original ==
    db.hung /\ Returned =>
        /\ result = "TimeoutError"
        /\ CountKind(notes, "timeout") = 1
        /\ \A i \in DOMAIN notes : notes[i].total_rows = tracker.total_rows

\* C9 amended: while the call hangs only the deadline can end the firing; it then ends
\* in a TimeoutError, and the timeout notification, attempted exactly once when
\* notifications are enabled and not at all otherwise, carries the rows and elapsed time
\* of the batches completed before the timeout.
C9_HungCallTimesOut ==
    /\ db.hung /\ ~Returned /\ pc # "dropped" => pc = "query" /\ ENABLED Timeout
    /\ db.hung /\ pc = "dropped" =>
        /\ Notified("timeout")
        /\ \A i \in DOMAIN notes :
              /\ notes[i].total_rows = OkRows(db.rets)
              /\ notes[i].elapsed_time = tracker.elapsed_time
    /\ db.hung /\ Returned => result = "TimeoutError"

C9_Witness ==
    /\ db.hung /\ Returned /\ result = "TimeoutError"
    /\ notes = <<Report("timeout", 2 * cfg.batch_size, 2)>> /\ chan = notes

(***************************************************************************)
(* Properties of the Scheduler and its Jobs (SpecSched, SpecSchedFair).    *)
(***************************************************************************)
Clock(j) == jobs[j].schedule_metadata.data_interval_end
\* the k-th cron occurrence of a schedule strictly after time t, if it has one
KthOccurrence(schedule, t, k) ==
    LET n == ((t \div schedule.period) + k) * schedule.period
    IN  IF schedule.finite /\ n > schedule.last THEN NoneOpt ELSE Some(n)
\* the occurrence firing k of job j waited for: the first one after the previous firing
\* (after construction for the first firing)
Awaited(j, k) ==
    NextOccurrence(jobs[j].schedule, IF k = 1 THEN born ELSE firedAt[j][k - 1])
\* every firing of job j so far was dispatched less than one period after the
\* occurrence it waited for
Prompt(j) ==
    \A k \in DOMAIN firedAt[j] :
        /\ IsSome(Awaited(j, k))
        /\ firedAt[j][k] - Unwrap(Awaited(j, k)) < jobs[j].schedule.period

\* C5: the data_interval_end values handed to the successive firings of a Job are the
\* consecutive cron occurrences after its construction, none skipped and none handed
\* twice, whenever every firing was dispatched less than one period late.
C5_ConsecutiveOccurrences ==
    \A j \in DOMAIN handed :
        Prompt(j) =>
            \A k \in DOMAIN handed[j] :
                /\ IsSome(KthOccurrence(jobs[j].schedule, born, k))
                /\ handed[j][k] = Unwrap(KthOccurrence(jobs[j].schedule, born, k))

\* the step is the part of Job::run on job j that stores the next logical clock value
Advances(j) == spc = "advance" /\ spc' # "advance" /\ Head(tick.due) = j

\* C6 as stated: the logical clock never decreases, and each Job::run moves it once,
\* to the earliest occurrence strictly after its previous value.
C6_Original ==
    [][\A j \in DOMAIN jobs :
          /\ Clock(j)' >= Clock(j)
          /\ Advances(j) =>
                /\ IsSome(NextOccurrence(jobs[j].schedule, Clock(j)))
                /\ Clock(j)' = Unwrap(NextOccurrence(jobs[j].schedule, Clock(j)))
          /\ ~Advances(j) => Clock(j)' = Clock(j)]_vars

\* C6 amended: the logical clock never decreases and changes only in Job::run, once
\* per call: to the earliest occurrence strictly after its previous value (whatever the
\* wall clock says) when the schedule has one, and stays as it is when the schedule is
\* exhausted.  The steps of dispatched actions (return, hang) leave it alone.
C6_ClockAdvancesFromPrevious ==
    [][\A j \in DOMAIN jobs :
          /\ Clock(j)' >= Clock(j)
          /\ Advances(j) =>
                 Clock(j)' = IF IsSome(NextOccurrence(jobs[j].schedule, Clock(j)))
                             THEN Unwrap(NextOccurrence(jobs[j].schedule, Clock(j)))
                             ELSE Clock(j)
          /\ ~Advances(j) => Clock(j)' = Clock(j)]_vars

\* a firing dispatched more than a period late has moved the clock to the occurrence
\* after its previous value, which the wall clock has already passed, while the action
\* it dispatched hangs
C6_Witness ==
    \E j \in DOMAIN jobs :
        /\ Len(handed[j]) >= 1 /\ spc = "loop"
        /\ Clock(j) = handed[j][Len(handed[j])] + jobs[j].schedule.period
        /\ firedAt[j][Len(firedAt[j])] > Clock(j)
        /\ \E a \in DOMAIN acts : acts[a].job = j /\ acts[a].hung

InSeq(x, seq) == \E i \in DOMAIN seq : seq[i] = x

\* C10: the run loop never waits for a dispatched action.  Whatever the dispatched
\* actions do (return, fail, hang forever), Job::run returns to the loop, every Job due
\* at a tick is fired at it, and the loop stops only when no Job has an occurrence left.
C10_LoopNeverWaits ==
    /\ [](spc = "advance" => ENABLED JobRunUpdate)
    /\ (spc = "advance") ~> (spc # "advance")
    /\ \A j \in 1..NJobs :
          (spc = "sleep" /\ InSeq(j, tick.due)) ~> (spc = "advance" /\ Head(tick.due) = j)
    /\ [](spc = "stopped" => \A j \in DOMAIN jobs : ~IsSome(JobUntil(jobs[j], now)))

\* an action of a Job hangs and the same Job has been fired again at a later
\* occurrence, as has another Job
C10_Witness ==
    \E a, b, c \in DOMAIN acts :
        /\ acts[a].hung /\ a < b
        /\ acts[b].job = acts[a].job
        /\ acts[b].metadata.data_interval_end > acts[a].metadata.data_interval_end
        /\ a < c /\ acts[c].job # acts[a].job

(***************************************************************************)
(* Properties of Scheduler::until (SpecUntil).                             *)
(***************************************************************************)
\* Job::until of job i in milliseconds, asked at time t
UntilMillis(i, t) == Unwrap(JobUntil(jobs[i], t)) \div MillisMicros
SeqRange(seq) == {seq[k] : k \in DOMAIN seq}

\* C11: Scheduler::until returns the minimum over the Jobs of the millisecond duration
\* Job::until gave, with exactly the Jobs whose duration equals it: every tied Job,
\* no Job due later, each once, and at least one; it returns nothing exactly when no
\* Job has an occurrence left.
C11_UntilMinimumAndTies ==
    [][spc = "loop" /\ spc' # "loop" =>
          LET n == Len(jobs)
              skew == IF n > 1 THEN (now' - now) \div (n - 1) ELSE 0
              at == [i \in 1..n |-> now + (i - 1) * skew]
              live == {i \in 1..n : IsSome(JobUntil(jobs[i], at[i]))}
          IN  IF live = {}
              THEN spc' = "stopped"
              ELSE LET m == CHOOSE d \in {UntilMillis(i, at[i]) : i \in live} :
                                \A i \in live : d <= UntilMillis(i, at[i])
                   IN  /\ spc' = "sleep"
                       /\ SeqRange(tick'.due) = {i \in live : UntilMillis(i, at[i]) = m}
                       /\ Len(tick'.due) = Cardinality(SeqRange(tick'.due))
                       /\ tick'.due # <<>>
                       /\ tick'.wake = now' + m * MillisMicros + EpsilonMicros]_vars

\* two Jobs tied at the minimal wait are returned together and a third Job, due
\* strictly later, is left out
C11_Witness ==
    /\ spc = "sleep" /\ Len(jobs) >= 3 /\ Len(tick.due) = 2
    /\ \E i \in DOMAIN jobs :
          /\ i \notin SeqRange(tick.due)
          /\ IsSome(JobUntil(jobs[i], now))
          /\ now + UntilMillis(i, now) * MillisMicros + EpsilonMicros > tick.wake

(***************************************************************************)
(* Properties of Job::get_next_schedule (SpecRegister).                    *)
(***************************************************************************)
MaxOcc == 6      \* occurrences of a schedule that are listed
\* the cron occurrences of a schedule, listed one by one
Occurrences(schedule) ==
    {k * schedule.period : k \in {i \in 1..MaxOcc :
                                    schedule.finite => i * schedule.period <= schedule.last}}
\* r is the earliest occurrence of the schedule strictly after t
EarliestAfter(schedule, t, r) ==
    /\ r > t
    /\ r \in Occurrences(schedule)
    /\ \A o \in Occurrences(schedule) : o > t => r <= o
\* the step is Job::new, reading the wall clock now'
Constructs == Len(jobs') = Len(jobs) + 1

\* C12 as stated: for every schedule and reference time get_next_schedule returns the
\* earliest occurrence strictly after the reference time.
C12_Original ==
    [][Constructs =>
          EarliestAfter(jobs'[Len(jobs')].schedule, now',
                        jobs'[Len(jobs')].schedule_metadata.data_interval_end)]_vars

\* C12 amended: get_next_schedule returns the earliest occurrence strictly after the
\* reference time (the following one when the reference lies on an occurrence) if the
\* schedule has an occurrence after it, and the reference time itself if it has none.
C12_NextOrReference ==
    [][Constructs =>
          LET schedule == jobs'[Len(jobs')].schedule
              r == jobs'[Len(jobs')].schedule_metadata.data_interval_end
          IN  IF \E o \in Occurrences(schedule) : o > now'
              THEN EarliestAfter(schedule, now', r)
              ELSE r = now']_vars

\* a Job built at a reference time lying exactly on an occurrence got the following one
C12_Witness ==
    /\ spc = "register" /\ Len(jobs) >= 1
    /\ now \in Occurrences(jobs[Len(jobs)].schedule)
    /\ Clock(Len(jobs)) = now + jobs[Len(jobs)].schedule.period

(***************************************************************************)
(* Properties of the rendered statement and its validation (SpecStatement). *)
(***************************************************************************)
\* the day-equivalent of the interval written in the statement is at least
\* retention_days, in unbounded arithmetic (a literal n * 2^48 with n > 0 exceeds every
\* retention_days tried)
DayEquivalentAtLeast(text, retention_days) ==
    IF text.high
    THEN text.n > 0 \/ retention_days = 0
    ELSE text.n * UnitFactor(text.unit) >= retention_days
\* the interval written in the statement qualifies
Qualifies(text, retention_days) ==
    /\ text.lit = "number"
    /\ text.unit \in {"Day", "Month", "Year"}
    /\ DayEquivalentAtLeast(text, retention_days)
\* the validator has been run on DELETE ... WHERE created_at < DATE_SUB(.., INTERVAL ..)
ValidatedBound ==
    pc = "done" /\ IsSome(sql) /\ Unwrap(sql).shape = "DeleteLt" /\ Unwrap(sql).table # ""

\* C13: the interval of the bound qualifies, and the statement is accepted, if and only
\* if it is a non-negative integer literal with unit DAY, MONTH or YEAR whose
\* day-equivalent (x 1, x 30, x 365) is at least retention_days.
C13_IntervalQualifies ==
    ValidatedBound => (result = "Ok" <=> Qualifies(Unwrap(sql), cfg.retention_days))

\* the validator has been run on the rendered statement
ValidatorRan == pc = "done" /\ IsSome(sql)
\* the rendered text is not SQL: not a statement at all, or its table name is missing
Unparseable(text) == text.shape = "NotSql" \/ text.table = ""

\* C14: validate_sql_query returns an error for every input that does not parse, that
\* holds more than one statement, whose statement is not a DELETE, or that is a DELETE
\* without a WHERE clause, whatever retention_days is and whether or not a qualifying
\* DATE_SUB call appears in the input.
C14_StructuralRejection ==
    ValidatorRan =>
        LET text == Unwrap(sql)
        IN  /\ Unparseable(text) => result = "Failed to parse SQL"
            /\ ~Unparseable(text) /\ text.shape = "TwoDeletes" =>
                   result = "Only single SQL statement is allowed"
            /\ ~Unparseable(text) /\ text.shape = "SelectOnly" =>
                   result = "Only DELETE statements are allowed"
            /\ ~Unparseable(text) /\ text.shape = "DeleteNoWhere" =>
                   result = "DELETE statement must have a WHERE clause and FROM clause"

\* two DELETE statements, each with a qualifying DATE_SUB bound, are rejected
C14_Witness ==
    /\ ValidatorRan /\ Unwrap(sql).shape = "TwoDeletes" /\ ~Unparseable(Unwrap(sql))
    /\ Qualifies(Unwrap(sql), cfg.retention_days) /\ cfg.retention_days = 30
    /\ result = "Only single SQL statement is allowed"

(***************************************************************************)
(* Further properties of one firing (SpecExec).                            *)
(***************************************************************************)
\* C15: a firing of a task with enabled = false has no side effects (no database
\* connection, no statement, no rendering or validation, no notification) and its
\* result is success, whatever the database does.
C15_DisabledNoEffects ==
    ~cfg.task_enabled =>
        /\ db.connects = 0
        /\ queries = <<>>
        /\ sql = NoneOpt /\ validated = {}
        /\ notes = <<>>
        /\ Returned => result = "Ok"

\* C16: when rendering the template fails the firing ends with a RenderError, no
\* notification is attempted and no statement is executed: a RenderError comes only
\* from a failed rendering and with nothing sent or executed, and a firing whose
\* template does not render executes nothing and, unless the connection failed or the
\* deadline expired before the rendering, ends with a RenderError.  Rendering fails on
\* a template whose syntax is broken.
C16_RenderFailure ==
    /\ result = "RenderError" =>
          /\ ~cfg.template.syntax_ok
          /\ notes = <<>> /\ chan = <<>> /\ queries = <<>> /\ sql = NoneOpt
    /\ cfg.task_enabled /\ ~cfg.template.syntax_ok =>
          /\ queries = <<>> /\ sql = NoneOpt
          /\ Returned => result \in {"RenderError", "ConnectionError", "TimeoutError"}
          /\ Returned /\ result # "TimeoutError" => notes = <<>>

\* a firing with notifications enabled whose template failed to render after the
\* connection was opened
C16_Witness ==
    /\ Returned /\ result = "RenderError" /\ cfg.slack_enabled /\ cfg.safe_enabled
    /\ db.connects = 1 /\ notes = <<>> /\ queries = <<>>

\* the step is the return of a send_to_channel awaited by execute_cleanup_task
SendReturns == pc \in {"send_validation", "send_success", "send_failure"}
                  /\ ppc = "racing" /\ flight' = NoneOpt
\* the step is the return of the send of the timeout report
TimeoutSendReturns == ppc = "send_timeout" /\ ppc' = "returned"

\* C17: a failure of the notification send never changes the firing's result.  When a
\* send returns, Ok or Err, delivered or not, the firing returns the outcome of its
\* path: success, ValidationError, ExecutionError after the retries are exhausted,
\* TimeoutError.
C17_SendFailureIgnored ==
    [][/\ SendReturns =>
             /\ ppc' = "returned"
             /\ pc = "send_success" => result' = "Ok"
             /\ pc = "send_validation" => result' = "ValidationError"
             /\ pc = "send_failure" => result' = "ExecutionError"
       /\ TimeoutSendReturns => result' = "TimeoutError"]_vars

\* a success report that was attempted and never delivered, and the firing succeeded
C17_Witness ==
    /\ Returned /\ result = "Ok" /\ success
    /\ Len(notes) = 1 /\ notes[1].kind = "success" /\ chan = <<>>

\* the names of the merged render context: the task's parameters plus the injected
\* batch_size and data_interval_end
ContextNames(c) == DOMAIN c.parameters \cup {"batch_size", "data_interval_end"}

\* C18: render returns an error whenever the template references a placeholder name
\* that is absent from the merged context; no statement is produced in which such a
\* placeholder was replaced by nothing.
C18_AbsentPlaceholderFails ==
    pc # "render" /\ ~(cfg.template.names \subseteq ContextNames(cfg)) =>
        sql = NoneOpt /\ (pc = "done" => result = "RenderError")

(***************************************************************************)
(* Further properties of the Scheduler and its Jobs (SpecSched).           *)
(***************************************************************************)
\* the duration from wall-clock time t to the earliest occurrence after the reference
\* time ref (zero when that occurrence has passed), if there is one
DurationToNextAfter(schedule, ref, t) ==
    LET o == NextOccurrence(schedule, ref)
    IN  IF IsSome(o) THEN Some(Max(0, Unwrap(o) - t)) ELSE NoneOpt

\* C19: once a Job has fired, Job::until is the duration from wall-clock now to the
\* earliest occurrence after the Job's stored logical clock value, not after last_run.
C19_UntilFromLogicalClock ==
    \A j \in DOMAIN jobs :
        spc = "loop" /\ IsSome(jobs[j].last_run) =>
            JobUntil(jobs[j], now) = DurationToNextAfter(jobs[j].schedule, Clock(j), now)

\* the occurrence Job::until of job j measured its duration to, asked at time t
UpcomingAt(j, t) ==
    NextOccurrence(jobs[j].schedule,
                   IF IsSome(jobs[j].last_run) THEN Unwrap(jobs[j].last_run) ELSE t)

\* C20: the run loop never fires a Job before the cron occurrence whose wait it
\* computed: the time until() was evaluated plus the millisecond duration it returned
\* plus the epsilon is not before that occurrence, and no firing is.
C20_NeverFiresEarly ==
    /\ spc = "sleep" =>
          \A k \in DOMAIN tick.due : tick.wake >= Unwrap(UpcomingAt(tick.due[k], now))
    /\ \A j \in DOMAIN firedAt : \A k \in DOMAIN firedAt[j] :
          IsSome(Awaited(j, k)) => firedAt[j][k] >= Unwrap(Awaited(j, k))

(***************************************************************************)
(* The retry budget and the shared progress of one firing (SpecExec).      *)
(***************************************************************************)
\* the call that returned in this step, if one did
CallReturned == Len(db'.rets) = Len(db.rets) + 1
LastRet(rets) == rets[Len(rets)]
\* the number of returned batches that affected more than zero rows
NonZeroBatches(rets) == Cardinality({i \in DOMAIN rets : rets[i].ok /\ rets[i].rows > 0})

\* C21: a batch that affects more than zero rows leaves the attempt counter unchanged;
\* only a failed execute_query changes it (by one), so successful non-zero batches
\* consume no retry budget.
C21_BatchKeepsAttempt ==
    [][/\ CallReturned /\ LastRet(db'.rets).ok => attempt' = attempt
       /\ attempt' # attempt =>
             CallReturned /\ ~LastRet(db'.rets).ok /\ attempt' = attempt + 1]_vars

\* more non-zero batches than the whole retry budget, none of it consumed
C21_Witness ==
    /\ NonZeroBatches(db.rets) > cfg.retry_attempts
    /\ attempt = 0
    /\ pc = "pace"

\* the firing is suspended at an await of execute_cleanup_task
Suspended == ppc = "racing" /\ pc \in AwaitPcs

\* C22: at every suspension point of a firing the shared progress row count is the sum of
\* the affected rows of the batches that have returned, it never decreases, and the
\* timeout report carries exactly that sum.
C22_ProgressIsSumOfBatches ==
    /\ [](Suspended => tracker.total_rows = OkRows(db.rets))
    /\ [][tracker'.total_rows >= tracker.total_rows]_vars
    /\ [](\A i \in DOMAIN notes :
             notes[i].kind = "timeout" => notes[i].total_rows = OkRows(db.rets))

\* the deadline expired after two non-zero batches and the report carries their sum
C22_Witness ==
    /\ NonZeroBatches(db.rets) >= 2
    /\ \E i \in DOMAIN notes :
          notes[i].kind = "timeout" /\ notes[i].total_rows = 2 * MaxAffected

\* the execute_query calls of the firing that were started and have not returned
InFlight == Len(queries) - Len(db.rets)

\* C23: within one firing at most one execute_query call is in flight: a call is started
\* only when none is outstanding, from the first pass of the loop, after the pacing sleep
\* that follows a non-zero batch, or after the backoff sleep that follows a failure.
C23_OneCallInFlight ==
    /\ [](InFlight \in {0, 1})
    /\ [](Suspended /\ pc = "pace" => InFlight = 0 /\ LastRet(db.rets).ok)
    /\ [](Suspended /\ pc = "backoff" => InFlight = 0 /\ ~LastRet(db.rets).ok)
    /\ [][Len(queries') > Len(queries) =>
             /\ InFlight = 0 /\ InFlight' = 1
             /\ pc \in {"connect", "pace", "backoff"}]_vars

\* a third call in flight, started after one pacing sleep and one backoff sleep
C23_Witness ==
    /\ pc = "query" /\ InFlight = 1 /\ Len(queries) = 3
    /\ NonZeroBatches(db.rets) = 1 /\ Errors(db.rets) = 1

\* the firing reached the execute loop (task.rs 200-211): with retry_attempts > 0 its
\* first pass issues a call
EnteredExecuting == queries # <<>>
\* the deadline won the race of task.rs 70-74
DeadlineWon == pc = "dropped"

\* C24 as stated: the deadline races only the execute loop, so a timeout outcome or a
\* timeout notification occurs only in a firing that has entered Executing.
C24_Original ==
    /\ result = "TimeoutError" => EnteredExecuting
    /\ CountKind(notes, "timeout") > 0 => EnteredExecuting

\* C24 amended: the deadline races the whole of execute_cleanup_task.  The future is
\* dropped only at one of its awaits, the first being the connection attempt, so a firing
\* with an empty password never times out and a timed-out firing has begun connecting;
\* rendering and validation have no await and are not interrupted, but the connection
\* attempt and the send of the validation-failure notification are.  The firing ends in
\* TimeoutError exactly when the deadline won, and a timeout notification is attempted
\* exactly then if notifications are enabled.
C24_DeadlineRacesWholeTask ==
    /\ [][DeadlineWon' /\ ~DeadlineWon => Suspended /\ pc \in AwaitPcs]_vars
    /\ [](DeadlineWon => ~cfg.password_empty /\ db.connects = 1)
    /\ [](Returned => (result = "TimeoutError" <=> DeadlineWon))
    /\ [](CountKind(notes, "timeout") = IF DeadlineWon /\ cfg.slack_enabled THEN 1 ELSE 0)

\* a firing that timed out before it reached the execute loop
C24_Witness ==
    /\ Returned /\ result = "TimeoutError"
    /\ ~EnteredExecuting
    /\ CountKind(notes, "timeout") = 1

(***************************************************************************)
(* Job::run, the run loop and the Jobs' state (SpecSched).                 *)
(***************************************************************************)
\* Job::run of job j is between its spawn (job.rs 81-83) and its clock update (84-86)
MidRun(j) == spc = "advance" /\ tick.due # <<>> /\ Head(tick.due) = j
\* an action dispatched for job j has not returned
ActPending(j) == \E a \in DOMAIN acts : acts[a].job = j
\* the value handed to the latest firing of job j
LastHanded(j) == handed[j][Len(handed[j])]

\* C25 as stated: all of a firing's bookkeeping, the clock update included, is complete
\* before the dispatched action begins running; so while Job::run has not yet stored
\* the next clock value, the action it dispatched has not run to its end.
C25_Original ==
    \A j \in DOMAIN jobs : MidRun(j) => ActPending(j)

\* C25 amended: last_run is recorded and the clock value captured before the action is
\* spawned, and the action receives that pre-advance value; the next clock value is
\* stored after the spawn, so the action may run, and even return, before it is; the
\* value is stored by the time run() returns whatever the action does.
C25_CaptureBeforeSpawn ==
    /\ [][Len(acts') > Len(acts) =>
             LET a == acts'[Len(acts')]
             IN  \A j \in DOMAIN jobs :
                     a.job = j =>
                        /\ a.metadata = jobs[j].schedule_metadata
                        /\ a.metadata = jobs'[j].schedule_metadata
                        /\ jobs'[j].last_run = Some(now)
                        /\ MidRun(j)' /\ ~MidRun(j)]_vars
    /\ [](\A j \in DOMAIN jobs :
             /\ ActPending(j) => IsSome(jobs[j].last_run) /\ handed[j] # <<>>
             /\ handed[j] # <<>> =>
                   Clock(j) = IF MidRun(j) THEN LastHanded(j)
                              ELSE GetNextSchedule(jobs[j].schedule, LastHanded(j)))
    /\ [][\A j \in DOMAIN jobs : MidRun(j) /\ ~MidRun(j)' => acts' = acts]_vars

\* the action of the firing in progress has already returned, and the Job's clock still
\* holds the value the action was handed
C25_Witness ==
    \E j \in DOMAIN jobs :
        /\ MidRun(j) /\ ~ActPending(j)
        /\ Clock(j) = LastHanded(j)
        /\ IsSome(NextOccurrence(jobs[j].schedule, Clock(j)))

\* the schedule of job j has an occurrence after wall-clock time t
HasFuture(j, t) == IsSome(NextOccurrence(jobs[j].schedule, t))
\* the run loop's call of Scheduler::until (core.rs 38) happens in this step
UntilReturns == spc = "loop" /\ spc' # "loop"

ActionStep == Len(acts') <= Len(acts) /\ acts' # acts

\* C27: a Job's last_run and logical clock change only in the run loop's fire step on
\* that Job, which leaves its schedule and every other Job alone; Scheduler::until
\* changes no Job; a step of a running action changes no Job, and advancing a Job's clock
\* changes no running action's copy of the metadata.
C27_JobChangedOnlyByItsFiring ==
    /\ [][\A j \in DOMAIN jobs :
             jobs'[j] # jobs[j] =>
                /\ spc \in {"fire", "advance"} /\ Head(tick.due) = j
                /\ jobs'[j].schedule = jobs[j].schedule
                /\ \A i \in DOMAIN jobs : i # j => jobs'[i] = jobs[i]]_vars
    /\ [][DOMAIN jobs' = DOMAIN jobs]_vars
    /\ [][UntilReturns \/ spc = "sleep" => jobs' = jobs]_vars
    /\ [][ActionStep => jobs' = jobs]_vars
    /\ [][jobs' # jobs =>
             \A a \in DOMAIN acts : a \in DOMAIN acts' /\ acts'[a] = acts[a]]_vars

\* of two tied Jobs the first has been fired, its clock advanced past the value its
\* running action holds, and the second is untouched
C27_Witness ==
    /\ spc = "fire" /\ Len(jobs) = 2 /\ Head(tick.due) = 2
    /\ jobs[1].last_run = Some(now) /\ jobs[2].last_run = NoneOpt
    /\ jobs[2] = JobNew(jobs[2].schedule, born)
    /\ \E a \in DOMAIN acts :
          acts[a].job = 1 /\ acts[a].metadata.data_interval_end < Clock(1)

(***************************************************************************)
(* The validator's search for the age bound (SpecStatement).               *)
(***************************************************************************)
\* the validator has been run on a single DELETE statement that has a WHERE clause
SearchRan ==
    /\ ValidatorRan /\ ~Unparseable(Unwrap(sql))
    /\ Len(ParseSql(Unwrap(sql)).stmts) = 1
    /\ ParseSql(Unwrap(sql)).stmts[1].kind = "Delete"
    /\ IsSome(ParseSql(Unwrap(sql)).stmts[1].selection)
\* the WHERE clause of that statement
WhereClause == Unwrap(ParseSql(Unwrap(sql)).stmts[1].selection)

RECURSIVE BeneathListed(_)
RECURSIVE BeneathListedInFrom(_)
\* a DATE_SUB call lies beneath expr on a path of AND, <, <= and IN (not NOT IN) nodes
\* only, a subquery being entered through its WHERE clause or its derived tables
BeneathListed(expr) ==
    CASE expr.t = "BinaryOp" ->
            expr.op \in {"Lt", "LtEq", "And"}
               /\ (BeneathListed(expr.left) \/ BeneathListed(expr.right))
      [] expr.t = "Function" -> ToUpper(expr.name) = "DATE_SUB"
      [] expr.t = "InSubquery" ->
            /\ ~expr.negated
            /\ \/ BeneathListed(expr.expr)
               \/ /\ IsSome(expr.subquery.selection)
                  /\ BeneathListed(Unwrap(expr.subquery.selection))
               \/ BeneathListedInFrom(expr.subquery.from)
      [] OTHER -> FALSE

BeneathListedInFrom(from) ==
    \E i \in DOMAIN from :
        /\ from[i].relation.t = "Derived"
        /\ \/ /\ IsSome(from[i].relation.subquery.selection)
              /\ BeneathListed(Unwrap(from[i].relation.subquery.selection))
           \/ BeneathListedInFrom(from[i].relation.subquery.from)

\* C28: the search descends only through AND, <, <= and IN-subquery nodes, so a DELETE
\* whose only DATE_SUB call lies beneath any other node (OR, NOT, =, >, NOT IN, a
\* function argument, parentheses) is rejected.
C28_OnlyListedNodesDescended ==
    SearchRan /\ ~BeneathListed(WhereClause) => result # "Ok"

RECURSIVE QualifyingReachable(_, _)
RECURSIVE QualifyingReachableInFrom(_, _)
\* a qualifying DATE_SUB call lies beneath expr on a path of AND, <, <= and IN-subquery
\* nodes, a subquery being entered through its own WHERE clause and, whether or not it
\* has one, through the derived tables of its FROM list
QualifyingReachable(expr, retention_days) ==
    CASE expr.t = "BinaryOp" ->
            expr.op \in {"Lt", "LtEq", "And"}
               /\ (QualifyingReachable(expr.left, retention_days)
                     \/ QualifyingReachable(expr.right, retention_days))
      [] expr.t = "Function" -> ContainsDateSub(expr, retention_days)
      [] expr.t = "InSubquery" ->
            \/ QualifyingReachable(expr.expr, retention_days)
            \/ /\ IsSome(expr.subquery.selection)
               /\ QualifyingReachable(Unwrap(expr.subquery.selection), retention_days)
            \/ QualifyingReachableInFrom(expr.subquery.from, retention_days)
      [] OTHER -> FALSE

QualifyingReachableInFrom(from, retention_days) ==
    \E i \in DOMAIN from :
        /\ from[i].relation.t = "Derived"
        /\ \/ /\ IsSome(from[i].relation.subquery.selection)
              /\ QualifyingReachable(Unwrap(from[i].relation.subquery.selection),
                                     retention_days)
           \/ QualifyingReachableInFrom(from[i].relation.subquery.from, retention_days)

\* C29: the validator passes a DELETE whenever a qualifying call is reachable from its
\* WHERE clause: for an IN-subquery, in the subquery's own WHERE or in the WHERE of a
\* derived table of its FROM list at any depth and position, also when the subquery has
\* a WHERE clause that holds no qualifying call.
C29_PassesWhenReachable ==
    SearchRan /\ ~cfg.overflow_checks
      /\ QualifyingReachable(WhereClause, cfg.retention_days) => result = "Ok"

(***************************************************************************)
(* The retry budget of one firing (SpecExec).                              *)
(***************************************************************************)
\* the retry_attempts-th failed call of the firing has returned
BudgetSpent == Errors(db.rets) = cfg.retry_attempts

\* C30 as stated: failures never exceed retry_attempts, whatever successes lie between
\* them, and the firing ends in ExecutionError exactly when the retry_attempts-th
\* failure has occurred.
C30_Original ==
    /\ attempt = Errors(db.rets) /\ Errors(db.rets) <= cfg.retry_attempts
    /\ Returned => (result = "ExecutionError" <=> BudgetSpent)

\* C30 amended: the attempt counter is the number of failed calls of the firing, never
\* reset by a successful batch and never above retry_attempts; once the
\* retry_attempts-th failure has returned no further call is made, and the firing ends
\* in ExecutionError exactly when it has occurred, unless the deadline expires while the
\* failure notification is being sent, and then it ends in TimeoutError.
C30_BudgetPerFiring ==
    /\ attempt = Errors(db.rets) /\ Errors(db.rets) <= cfg.retry_attempts
    /\ BudgetSpent => InFlight = 0 /\ ~LastRet(db.rets).ok
    /\ result = "ExecutionError" => BudgetSpent
    /\ Returned /\ NoDeadline => (result = "ExecutionError" <=> BudgetSpent)
    /\ Returned /\ BudgetSpent /\ ~NoDeadline =>
          /\ result = "TimeoutError" /\ cfg.slack_enabled
          /\ CountKind(notes, "failure") = 1

\* a failure, a non-zero batch, and the second failure, which ends the firing: the batch
\* in between gave no budget back
C30_Witness ==
    /\ cfg.retry_attempts = 2 /\ Len(db.rets) = 3
    /\ ~db.rets[1].ok /\ db.rets[2].ok /\ db.rets[2].rows > 0 /\ ~db.rets[3].ok
    /\ Returned /\ result = "ExecutionError"

(***************************************************************************)
(* Firings and cron occurrences (SpecSched).                               *)
(***************************************************************************)
\* a cron occurrence of job j's schedule lies after time s and not after time t
OccurrenceBetween(j, s, t) ==
    /\ IsSome(NextOccurrence(jobs[j].schedule, s))
    /\ Unwrap(NextOccurrence(jobs[j].schedule, s)) <= t

\* C31: each cron occurrence of a Job triggers at most one firing of it: between the
\* wall-clock times of two successive firings of a Job lies a cron occurrence of its
\* schedule, and no two firings waited for the same occurrence.
C31_OneFiringPerOccurrence ==
    \A j \in DOMAIN firedAt : \A k \in DOMAIN firedAt[j] :
        k > 1 => /\ OccurrenceBetween(j, firedAt[j][k - 1], firedAt[j][k])
                 /\ Awaited(j, k) # Awaited(j, k - 1)

(***************************************************************************)
(* The run loop with the wall clock advancing between the job.until()      *)
(* calls of one Scheduler::until (SpecSkew): each call reads Utc::now()    *)
(* for itself (job.rs 63, 66).  The sleeps return less than a period late. *)
(***************************************************************************)
SkewJobSets == { <<EverySecond, EverySecond>>, <<EveryTwo, EverySecond>> }
SkewBorn == 400             \* Utc::now() in Job::new
SkewStartDelay == 600       \* from Job::new to the first Scheduler::until
LoopSkews == {0, 1}         \* microseconds from one job.until() to the next
SkewLateness == {0, 400}    \* how long after its deadline the sleep returns

SkewInit ==
    /\ born = SkewBorn
    /\ now = born + SkewStartDelay
    /\ \E scheds \in SkewJobSets :
          jobs = [i \in 1..NJobs |-> JobNew(scheds[i], born)]
    /\ spc = "loop"
    /\ tick = [due |-> <<>>, wake |-> 0]
    /\ handed = [i \in 1..NJobs |-> <<>>]
    /\ firedAt = [i \in 1..NJobs |-> <<>>]
    /\ acts = <<>>

SkewNext ==
    \/ \E skew \in LoopSkews : SchedUntilAt(skew)
    \/ \E late \in SkewLateness : SchedWake(late)
    \/ JobRunSpawn
    \/ JobRunUpdate
    \/ \E a \in DOMAIN acts : ActEnd(a)     \* or never: an action may stay pending

InitSkew == SkewInit /\ ExecIdle

SpecSkew == InitSkew /\ [][SkewNext]_vars

\* the scheduler's first until() was called at this wall-clock time
StartedAt == born + SkewStartDelay
\* job j has been fired for its occurrence o: at o (up to a millisecond early) or
\* after it and before the following occurrence
FiredFor(j, o) ==
    \E k \in DOMAIN firedAt[j] :
        firedAt[j][k] >= o - MillisMicros /\ firedAt[j][k] < o + jobs[j].schedule.period
\* the occurrences of job j after the scheduler started whose period has passed
PastOccurrences(j) ==
    {o \in {n * jobs[j].schedule.period : n \in 1..MaxOcc} :
        /\ o > StartedAt
        /\ jobs[j].schedule.finite => o <= jobs[j].schedule.last
        /\ o + jobs[j].schedule.period <= now}

\* C32: no cron occurrence is left without a firing: with sleeps returning less than a
\* period late, every Job, run before or not, is fired for every occurrence of its
\* schedule after the scheduler started, also when it was left out of the tied set at
\* that tick; so once the following occurrence has come it has been fired for it.
C32_NoOccurrenceSkipped ==
    \A j \in DOMAIN jobs : \A o \in PastOccurrences(j) : FiredFor(j, o)

(***************************************************************************)
(* The logical clock against the slots of the firings (SpecSched).         *)
(***************************************************************************)
\* the latest occurrence of a schedule that is not after time t (0 when there is none)
LatestOccurrence(schedule, t) ==
    LET n == (t \div schedule.period) * schedule.period
    IN  IF schedule.finite /\ n > schedule.last THEN schedule.last ELSE n

\* C33: the data_interval_end handed to a firing is the cron occurrence that triggered
\* it, the latest occurrence of the Job's schedule not after the firing's wall-clock
\* time, also when time passed between Job::new and the scheduler's start.
C33_HandedIsTriggeringOccurrence ==
    \A j \in DOMAIN handed : \A k \in DOMAIN handed[j] :
        handed[j][k] = LatestOccurrence(jobs[j].schedule, firedAt[j][k])

(***************************************************************************)
(* The abandoned execute loop (SpecExec).                                  *)
(***************************************************************************)
\* the firing has taken the timeout path: its timeout report was built or its
\* TimeoutError returned
TimedOut == CountKind(notes, "timeout") > 0 \/ result = "TimeoutError"

\* C34: once a firing has taken the timeout path its execute loop performs no further
\* step: no call is started or answered, the counters and the shared progress stay as
\* they are and no notification is added; the step that takes the path starts no call
\* and adds nothing but the timeout report.
C34_AbandonedLoopStops ==
    /\ [][TimedOut =>
             /\ UNCHANGED <<queries, db, attempt, success, total_rows, total_time_elapsed,
                            tracker, notes, sql, validated>>
             /\ pc' = pc /\ DeadlineWon]_vars
    /\ [][TimedOut' /\ ~TimedOut =>
             /\ UNCHANGED <<queries, db, attempt, success, total_rows, total_time_elapsed,
                            tracker, sql, validated>>
             /\ notes' \in {notes, Append(notes, Report("timeout", tracker.total_rows,
                                                         tracker.elapsed_time))}]_vars
    /\ [](TimedOut => CountKind(notes, "timeout") = IF cfg.slack_enabled THEN 1 ELSE 0)

\* the deadline expired during the pacing sleep after a non-zero batch, or with a call
\* in flight after one, and the firing has returned the timeout error
C34_Witness ==
    /\ Returned /\ result = "TimeoutError"
    /\ NonZeroBatches(db.rets) >= 1
    /\ InFlight = 1
    /\ tracker.total_rows = OkRows(db.rets)

(***************************************************************************)
(* Monotonicity of the interval check (SpecStatement).                     *)
(***************************************************************************)
\* the u64 value of a number literal: n, or n * 2^48 when high (n < 2^16)
LiteralLeq(a, b) ==
    IF a.high = b.high THEN a.n <= b.n
    ELSE IF b.high THEN b.n > 0 \/ a.n = 0
    ELSE a.n = 0
\* the literals INTERVAL n that are compared with the one in the statement
SmallLiterals == {NumLit(n, FALSE, FALSE, FALSE) : n \in {0, 1, 30, 31}}
\* the validator has been run on a bound whose interval is a plain number literal with
\* unit DAY, MONTH or YEAR
NumberBound ==
    /\ ValidatedBound
    /\ Unwrap(sql).lit = "number"
    /\ Unwrap(sql).unit \in {"Day", "Month", "Year"}

\* C35: interval qualification is monotone in the literal: when INTERVAL n qualifies for
\* a unit and a retention_days, the statement with INTERVAL m of the same unit is
\* accepted for every u64 m >= n; the products m x 30 and m x 365 do not leave 64 bits.
C35_MonotoneInLiteral ==
    NumberBound =>
        LET text == Unwrap(sql)
            m == Literal(text)
        IN  /\ \A s \in SmallLiterals :
                  LiteralLeq(s, m)
                    /\ ValidateInterval(Interval(s, text.unit), cfg.retention_days)
                  => result = "Ok"
            /\ ~MulOverflows(m, UnitFactor(text.unit))

====
